---- MODULE Spec2Model ----
(***************************************************************************)
(* dfirsec/pie: extraction of indicators of compromise from document text. *)
(*                                                                         *)
(* The module models PDFWorker (src/pie.py, and its later revision         *)
(* src/utils/worker.py) together with the Helpers pattern registry         *)
(* (src/utils/helpers.py).  A text is a sequence of Unicode code points;   *)
(* the registry's regular expressions are given as syntax trees and        *)
(* matched by a backtracking matcher with the priorities of Python's re.   *)
(***************************************************************************)
EXTENDS Integers, Sequences, FiniteSets, TLC

VARIABLES
    variant,      \* the revision of PDFWorker that runs: "pie" (src/pie.py) or "worker" (src/utils/worker.py)
    pc,           \* the control point of the run
    text,         \* get_patterns' argument text, a sequence of code points
    output,       \* get_patterns' argument output
    title,        \* get_patterns' argument title
    counter,      \* self.counter
    key_idx,      \* the position, in helper.patts(text).items(), of the loop of get_patterns
    lang_found,   \* detect_language: label -> blob, for the labels added to results
    emitted,      \* key -> the patterns handed to print_and_write_patterns
    raw_domains,  \* sorted(set(pvals)) of the key DOMAIN, before process_domains
    no_iocs,      \* whether "= No IOCs found =" was printed
    raised,       \* the exception that ended the run, "" when none
    tld_file,     \* the file tlds-alpha-by-domain.txt: [exists, lines, age]
    tld_before,   \* the file as tlds_file found it when it was called
    requests,     \* the number of calls of requests.get
    response,     \* the outcome of the last requests.get: "none", "ok" or "error"
    answer,       \* the answer given to Prompt.ask (worker.py), "" when none was asked
    interrupted,  \* whether a KeyboardInterrupt was delivered to the run
    domains_in,   \* process_domains' argument, when the function is run on its own
    domains_out,  \* process_domains' result, when the function is run on its own
    printed,      \* key -> the patterns in the order "\n".join(patterns) takes them from the set
    checked,      \* whether tlds_file was called for the document at hand
    docs,         \* the number of documents handed to this worker so far
    prev,         \* the end of the previous document of this worker: its text, results, counter, TLD file
    judged,       \* the candidates the loop of process_domains has been through
    writer        \* the control point of download_tlds in another process of the program

vars == <<variant, pc, text, output, title, counter, key_idx, lang_found, emitted, raw_domains,
          no_iocs, raised, tld_file, tld_before, requests, response, answer,
          interrupted, domains_in, domains_out, printed, checked, docs, prev, judged, writer>>

(***************************************************************************)
(* Regular expressions: the syntax trees of re, as re's parser builds them *)
(***************************************************************************)
Lit(c) == [t |-> "lit", c |-> c]
NotLit(c) == [t |-> "notlit", c |-> c]
AnyChar == [t |-> "any"]
Rg(lo, hi) == [k |-> "range", lo |-> lo, hi |-> hi]
Ct(name) == [k |-> name, lo |-> 0, hi |-> 0]
In(items) == [t |-> "in", neg |-> FALSE, items |-> items]
NotIn(items) == [t |-> "in", neg |-> TRUE, items |-> items]
Rep(lo, hi, body) == [t |-> "rep", lo |-> lo, hi |-> hi, inf |-> FALSE, body |-> body]
RepUnbounded(lo, body) == [t |-> "rep", lo |-> lo, hi |-> 0, inf |-> TRUE, body |-> body]
Grp(body) == [t |-> "grp", body |-> body]
Alt(alts) == [t |-> "alt", alts |-> alts]
NotAhead(body) == [t |-> "nla", body |-> body]
NotBehind(w, body) == [t |-> "nlb", w |-> w, body |-> body]
AtBegin == [t |-> "bol"]
AtEnd == [t |-> "eol"]
AtBoundary == [t |-> "wb"]

\* c lies in one of the ranges <<lo, hi>> of rs
InRanges(c, rs) == \E n \in 1..Len(rs) : rs[n][1] <= c /\ c <= rs[n][2]

\* \w, \s and \d of a str pattern (Unicode), on the Basic Latin, Latin-1, Cyrillic, Hebrew,
\* Arabic, Devanagari and CJK blocks
WordRanges ==
    << <<48, 57>>, <<65, 90>>, <<95, 95>>, <<97, 122>>, <<170, 170>>, <<178, 179>>,
       <<181, 181>>, <<185, 186>>, <<188, 190>>, <<192, 214>>, <<216, 246>>, <<248, 255>>,
       <<1024, 1153>>, <<1162, 1279>>, <<1488, 1514>>, <<1519, 1522>>, <<1568, 1610>>,
       <<1632, 1641>>, <<1646, 1647>>, <<1649, 1747>>, <<1749, 1749>>, <<1765, 1766>>,
       <<1774, 1788>>, <<1791, 1791>>, <<2308, 2361>>, <<2365, 2365>>, <<2384, 2384>>,
       <<2392, 2401>>, <<2406, 2415>>, <<2417, 2431>>, <<13312, 19903>>, <<19968, 40959>> >>
SpaceRanges == << <<9, 13>>, <<28, 32>>, <<133, 133>>, <<160, 160>> >>
DigitRanges == << <<48, 57>>, <<1632, 1641>>, <<1776, 1785>>, <<2406, 2415>> >>
IsWord(c) == InRanges(c, WordRanges)
IsSpace(c) == InRanges(c, SpaceRanges)
IsDigit(c) == InRanges(c, DigitRanges)

\* one item of a character class
InItem(c, it) ==
    CASE it.k = "range" -> it.lo <= c /\ c <= it.hi
      [] it.k = "word" -> IsWord(c)
      [] it.k = "notword" -> ~IsWord(c)
      [] it.k = "space" -> IsSpace(c)
      [] it.k = "digit" -> IsDigit(c)

InClass(c, n) == (\E j \in 1..Len(n.items) : InItem(c, n.items[j])) # n.neg

(***************************************************************************)
(* Helpers.regex: the patterns, each as Python's re parses it               *)
(***************************************************************************)
\* helpers.py:24-24  patterns["languages"]["kanji"]
re_kanji ==
    <<In(<<Rg(19968, 40959), Rg(13312, 19903), Rg(63744, 64255)>>)>>

\* helpers.py:22-22  patterns["languages"]["arabic"]
re_arabic ==
    <<In(<<Rg(1536, 1791), Rg(1688, 1688), Rg(1662, 1662), Rg(1670, 1670), Rg(1711, 1711)>>)>>

\* helpers.py:23-23  patterns["languages"]["chinese"]
re_chinese ==
    <<In(<<Rg(19968, 40959)>>)>>

\* helpers.py:28-28  patterns["languages"]["farsi"]
re_farsi ==
    <<In(<<Rg(1536, 1791), Rg(1688, 1688), Rg(1662, 1662), Rg(1670, 1670), Rg(1711, 1711)>>)>>

\* helpers.py:29-29  patterns["languages"]["cyrillic"]
re_cyrillic ==
    <<In(<<Rg(1024, 1279)>>)>>

\* helpers.py:30-30  patterns["languages"]["hebrew"]
re_hebrew ==
    <<In(<<Rg(1424, 1535), Rg(64298, 64334)>>)>>

\* helpers.py:25-27  patterns["languages"]["han-unification"]
re_han_unification ==
    <<AtBegin, RepUnbounded(1, <<In(<<Rg(19968, 40959), Rg(13312, 19903), Rg(8192, 8192),
    Rg(48, 10861), Rg(70, 70), Rg(10864, 10864), Rg(48, 11123), Rg(11124, 11124), Rg(48,
    11137), Rg(11138, 11138), Rg(48, 11498), Rg(11499, 11499), Rg(48, 11966), Rg(12288, 12288),
    Rg(48, 12596), Rg(63744, 64255), Rg(11904, 12031), Rg(12736, 12783), Rg(12288, 12351),
    Rg(12272, 12287), Rg(13056, 13311), Rg(65072, 65103), Rg(12160, 12160), Rg(48, 12193),
    Rg(12800, 13055), Rg(7968, 7968), Rg(48, 7983), Rg(12032, 12255)>>)>>), AtEnd>>

\* helpers.py:31-31  patterns["languages"]["devanagari"]
re_devanagari ==
    <<In(<<Rg(2304, 2388)>>)>>

\* helpers.py:65-67  patterns["file-related"]["archive"]
re_archive ==
    <<Grp(<<RepUnbounded(1, <<Grp(<<NotIn(<<Ct("space"), Rg(124, 124), Ct("digit"),
    Ct("notword"), Rg(42, 42)>>)>>)>>), RepUnbounded(1, <<In(<<Rg(97, 122), Rg(45, 45), Rg(65,
    90), Rg(48, 57), Rg(95, 95), Rg(32, 32)>>)>>), Grp(<<Alt(<<<<Lit(46)>>, <<Lit(91), Lit(46),
    Lit(93)>>>>)>>), Grp(<<Alt(<<<<Lit(122), Lit(105), Lit(112)>>, <<Lit(55), Lit(122)>>,
    <<Lit(106), Lit(97), Lit(114)>>, <<Lit(103), Lit(122)>>, <<Lit(114), Lit(97), Lit(114)>>,
    <<Lit(120), Lit(122)>>, <<Lit(116), Lit(97), Lit(114)>>, <<Lit(116), Lit(97), Lit(114),
    Lit(46), Lit(103), Lit(122)>>>>)>>)>>)>>

\* helpers.py:68-71  patterns["file-related"]["binary"]
re_binary ==
    <<Grp(<<RepUnbounded(1, <<Grp(<<NotIn(<<Ct("space"), Rg(124, 124), Ct("notword")>>)>>)>>),
    RepUnbounded(1, <<Grp(<<In(<<Rg(97, 122), Rg(45, 45), Rg(65, 90), Rg(48, 57), Rg(95, 95),
    Rg(19968, 40959), Rg(1024, 1279)>>)>>)>>), Grp(<<Lit(46), Alt(<<<<Lit(101), Lit(120),
    Lit(101)>>, <<Lit(109), Lit(115), Lit(105)>>, <<Lit(100), Lit(108), Lit(108)>>, <<Lit(98),
    Lit(105), Lit(110)>>>>)>>)>>)>>

\* helpers.py:84-84  patterns["misc"]["btc"]
re_btc ==
    <<Grp(<<AtBegin, In(<<Rg(49, 49), Rg(51, 51)>>), Rep(25, 34, <<In(<<Rg(97, 107), Rg(109,
    122), Rg(65, 72), Rg(74, 78), Rg(80, 90), Rg(49, 57)>>)>>), AtEnd>>)>>

\* helpers.py:47-51  patterns["web-related"]["domain"]
re_domain ==
    <<Grp(<<Alt(<<<<RepUnbounded(1, <<In(<<Rg(65, 90), Rg(97, 122), Rg(48, 57)>>)>>),
    RepUnbounded(0, <<In(<<Rg(45, 45), Rg(124, 124), Rg(46, 46)>>), RepUnbounded(1,
    <<In(<<Rg(65, 90), Rg(97, 122), Rg(48, 57)>>)>>)>>), Alt(<<<<Lit(91), Lit(46), Lit(93)>>,
    <<Lit(46)>>>>), NotAhead(<<Alt(<<<<RepUnbounded(0, <<In(<<Rg(97, 122), Rg(45, 45)>>)>>),
    AnyChar, In(<<Rg(105, 105), Rg(46, 46), Rg(101, 101)>>), AtEnd>>, <<In(<<Rg(101, 101),
    Rg(46, 46), Rg(103, 103)>>), AtEnd>>>>)>>), Rep(2, 4, <<In(<<Rg(97, 122)>>)>>),
    AtBoundary>>, <<Lit(91), Lit(46), Lit(93), Rep(2, 4, <<In(<<Rg(97, 122)>>)>>),
    NotAhead(<<Lit(64)>>), AtEnd>>>>)>>)>>

\* helpers.py:52-55  patterns["web-related"]["email"]
re_email ==
    <<Grp(<<RepUnbounded(1, <<In(<<Rg(97, 122), Rg(65, 90), Rg(48, 57), Rg(95, 95), Rg(46, 46),
    Rg(43, 43), Rg(45, 45)>>)>>), Grp(<<Alt(<<<<Lit(91), Lit(64), Lit(93)>>, <<Lit(64)>>>>)>>),
    NotAhead(<<Lit(102), Lit(105), Lit(114), Lit(101), Lit(101), Lit(121), Lit(101)>>),
    RepUnbounded(1, <<In(<<Rg(97, 122), Rg(65, 90), Rg(48, 57), Rg(45, 45), Rg(46, 46)>>)>>),
    Grp(<<Alt(<<<<Lit(46)>>, <<Lit(91), Lit(46), Lit(93)>>>>)>>),
    NotAhead(<<Alt(<<<<RepUnbounded(1, <<In(<<Rg(97, 122), Rg(45, 45)>>)>>), Lit(46), Lit(103),
    Lit(111), Lit(118)>>, <<Lit(103), Lit(111), Lit(118)>>>>)>>), Grp(<<Rep(2, 6, <<In(<<Rg(97,
    122), Rg(65, 90), Rg(48, 57), Rg(45, 45), Rg(46, 46)>>)>>), AtBoundary>>)>>)>>

\* helpers.py:72-72  patterns["file-related"]["env_var"]
re_env_var ==
    <<Grp(<<RepUnbounded(1, <<Lit(37)>>), RepUnbounded(1, <<In(<<Rg(97, 122), Rg(65, 90),
    Rg(48, 57)>>)>>), Lit(37), RepUnbounded(0, <<AnyChar>>), NotLit(34)>>)>>

\* helpers.py:76-76  patterns["file-related"]["misc_file"]
re_misc_file ==
    <<Grp(<<RepUnbounded(1, <<Grp(<<NotIn(<<Ct("space"), Rg(124, 124), Ct("notword")>>)>>)>>),
    RepUnbounded(1, <<Grp(<<In(<<Rg(97, 122), Rg(45, 45), Rg(65, 90), Rg(48, 57), Rg(95,
    95)>>)>>)>>), Grp(<<Lit(46), Alt(<<<<Lit(116), Lit(120), Lit(116)>>, <<Lit(99), Lit(115),
    Lit(118)>>>>)>>)>>)>>

\* helpers.py:73-75  patterns["file-related"]["image"]
re_image ==
    <<Grp(<<RepUnbounded(1, <<Grp(<<NotIn(<<Ct("space"), Rg(124, 124), Ct("digit"),
    Ct("notword"), Rg(42, 42)>>)>>)>>), RepUnbounded(1, <<In(<<Rg(97, 122), Rg(45, 45), Rg(65,
    90), Rg(48, 57), Rg(95, 95), Rg(32, 32)>>)>>), Grp(<<Alt(<<<<Lit(46)>>, <<Lit(91), Lit(46),
    Lit(93)>>>>)>>), Grp(<<Alt(<<<<Lit(98), Lit(109), Lit(112)>>, <<Lit(103), Lit(105),
    Lit(102)>>, <<Lit(106), Lit(112), Lit(103)>>, <<Lit(106), Lit(112), Lit(101), Lit(103)>>,
    <<Lit(112), Lit(110), Lit(103)>>, <<Lit(115), Lit(118), Lit(103)>>, <<Lit(116), Lit(105),
    Lit(102), Lit(102)>>, <<Lit(119), Lit(101), Lit(112), Lit(98)>>>>)>>)>>)>>

\* helpers.py:40-43  patterns["net-related"]["ipv4"]
re_ipv4 ==
    <<Rep(3, 3, <<Grp(<<Grp(<<NotAhead(<<Lit(48)>>), Grp(<<Alt(<<<<Lit(50), Lit(53),
    In(<<Rg(48, 53)>>)>>, <<Lit(50), In(<<Rg(48, 52)>>), In(<<Rg(48, 57)>>)>>, <<Rep(0, 1,
    <<In(<<Rg(48, 48), Rg(49, 49)>>)>>), In(<<Rg(48, 57)>>), Rep(0, 1, <<In(<<Rg(48,
    57)>>)>>)>>>>)>>), Grp(<<Alt(<<<<Lit(91), Lit(46), Lit(93)>>, <<Lit(46)>>>>)>>)>>)>>)>>),
    Grp(<<Alt(<<<<Lit(50), Lit(53), In(<<Rg(48, 53)>>)>>, <<Lit(50), In(<<Rg(48, 52)>>),
    In(<<Rg(48, 57)>>)>>, <<Rep(0, 1, <<In(<<Rg(48, 48), Rg(49, 49)>>)>>), In(<<Rg(48, 57)>>),
    Rep(0, 1, <<In(<<Rg(48, 57)>>)>>)>>>>)>>)>>

\* helpers.py:88-88  patterns["misc"]["geolocation"]
re_geolocation ==
    <<AtBegin, Grp(<<Rep(0, 1, <<Grp(<<Alt(<<<<Rep(0, 1, <<Lit(45)>>)>>, <<Rep(0, 1,
    <<Lit(43)>>)>>>>)>>)>>), RepUnbounded(1, <<In(<<Ct("digit")>>)>>), Rep(0, 1,
    <<Grp(<<Lit(46), RepUnbounded(1, <<In(<<Ct("digit")>>)>>)>>)>>)>>), Lit(44),
    RepUnbounded(0, <<In(<<Ct("space")>>)>>), Grp(<<Rep(0, 1, <<Grp(<<Alt(<<<<Rep(0, 1,
    <<Lit(45)>>)>>, <<Rep(0, 1, <<Lit(43)>>)>>>>)>>)>>), RepUnbounded(1,
    <<In(<<Ct("digit")>>)>>), Rep(0, 1, <<Grp(<<Lit(46), RepUnbounded(1,
    <<In(<<Ct("digit")>>)>>)>>)>>)>>), AtEnd>>

\* helpers.py:44-44  patterns["net-related"]["mac"]
re_mac ==
    <<AtBegin, In(<<Rg(97, 102), Rg(65, 70), Rg(48, 57)>>), Lit(50), Grp(<<Lit(58), In(<<Rg(97,
    102), Rg(65, 70), Rg(48, 57)>>), Lit(50)>>), Lit(53), AtEnd>>

\* helpers.py:34-34  patterns["hashes"]["md5"]
re_md5 ==
    <<AtBoundary, Rep(32, 32, <<In(<<Rg(65, 70), Rg(97, 102), Rg(48, 57)>>)>>), AtBoundary>>

\* helpers.py:77-77  patterns["file-related"]["office"]
re_office ==
    <<Grp(<<RepUnbounded(1, <<Grp(<<NotIn(<<Ct("space"), Rg(124, 124), Ct("digit"),
    Ct("notword"), Rg(42, 42)>>)>>)>>), RepUnbounded(1, <<In(<<Rg(97, 122), Rg(45, 45), Rg(65,
    90), Rg(48, 57), Rg(95, 95), Rg(32, 32)>>)>>), Lit(46), Grp(<<Alt(<<<<Lit(100), Lit(111),
    Lit(99)>>, <<Lit(100), Lit(111), Lit(99), Lit(120)>>, <<Lit(120), Lit(108), Lit(115)>>,
    <<Lit(120), Lit(108), Lit(115), Lit(120)>>, <<Lit(112), Lit(100), Lit(102)>>>>)>>)>>)>>

\* helpers.py:99-103  patterns["pii"]["phone"]
re_phone ==
    <<Grp(<<Alt(<<<<AtBegin, NotBehind(1, <<In(<<Ct("digit"), Rg(45, 45)>>)>>), Rep(0, 1,
    <<Rep(0, 1, <<Lit(43)>>), Rep(1, 3, <<In(<<Ct("digit")>>)>>), Rep(0, 1, <<In(<<Rg(45, 45),
    Rg(46, 46), Ct("space"), Rg(42, 42)>>)>>)>>), Rep(0, 1, <<Rep(0, 1, <<Lit(40)>>), Rep(3, 3,
    <<In(<<Ct("digit")>>)>>), Rep(0, 1, <<Lit(41)>>), Rep(0, 1, <<In(<<Rg(45, 45), Rg(46, 46),
    Ct("space"), Rg(42, 42)>>)>>)>>), Rep(3, 3, <<In(<<Ct("digit")>>)>>), Rep(0, 1,
    <<In(<<Rg(45, 45), Rg(46, 46), Ct("space"), Rg(42, 42)>>)>>), Rep(4, 4,
    <<In(<<Ct("digit")>>)>>), NotAhead(<<In(<<Ct("digit"), Rg(45, 45)>>)>>)>>, <<NotBehind(1,
    <<In(<<Ct("digit"), Rg(45, 45)>>)>>), Alt(<<<<Lit(40), Rep(0, 1, <<Lit(43)>>), Rep(2, 2,
    <<In(<<Ct("digit")>>)>>), Lit(41)>>, <<Rep(0, 1, <<Lit(43)>>), Rep(2, 2,
    <<In(<<Ct("digit")>>)>>)>>>>), RepUnbounded(0, <<In(<<Ct("space")>>)>>), Rep(2, 2,
    <<In(<<Ct("digit")>>)>>), RepUnbounded(0, <<In(<<Ct("space")>>)>>), Rep(3, 3,
    <<In(<<Ct("digit")>>)>>), RepUnbounded(0, <<In(<<Ct("space")>>)>>), Rep(4, 4,
    <<In(<<Ct("digit")>>)>>), NotAhead(<<In(<<Ct("digit"), Rg(45, 45)>>)>>), Lit(36)>>>>)>>)>>

\* helpers.py:78-80  patterns["file-related"]["script"]
re_script ==
    <<Grp(<<RepUnbounded(1, <<Grp(<<NotIn(<<Ct("space"), Rg(124, 124), Rg(40, 40), Rg(34,
    34)>>)>>)>>), RepUnbounded(1, <<In(<<Rg(97, 122), Rg(45, 45), Rg(65, 90), Rg(48, 57),
    Rg(95, 95)>>)>>), Grp(<<Lit(46), Alt(<<<<Lit(118), Lit(98), Lit(115)>>, <<Lit(115),
    Lit(104)>>, <<Lit(98), Lit(97), Lit(116)>>, <<Lit(112), Lit(115), Lit(49)>>, <<Lit(112),
    Lit(121)>>>>)>>)>>)>>

\* helpers.py:35-35  patterns["hashes"]["sha1"]
re_sha1 ==
    <<AtBoundary, Rep(40, 40, <<In(<<Rg(65, 70), Rg(97, 102), Rg(48, 57)>>)>>), AtBoundary>>

\* helpers.py:36-36  patterns["hashes"]["sha256"]
re_sha256 ==
    <<AtBoundary, Rep(64, 64, <<In(<<Rg(65, 70), Rg(97, 102), Rg(48, 57)>>)>>), AtBoundary>>

\* helpers.py:56-59  patterns["web-related"]["url"]
re_url ==
    <<Grp(<<Lit(104), Lit(116), Lit(116), Lit(112), Rep(0, 1, <<Lit(115)>>), Lit(58), Lit(47),
    Lit(47), Rep(0, 1, <<Grp(<<Lit(119), Lit(119), Lit(119), Lit(46)>>)>>), Rep(1, 256,
    <<In(<<Rg(45, 45), Rg(97, 122), Rg(65, 90), Rg(48, 57), Rg(64, 64), Rg(58, 58), Rg(37, 37),
    Rg(46, 46), Rg(95, 95), Rg(43, 43), Rg(126, 126), Rg(35, 35), Rg(61, 61)>>)>>), Lit(46),
    Rep(1, 6, <<In(<<Rg(97, 122), Rg(65, 90), Rg(48, 57), Rg(40, 40), Rg(41, 41)>>)>>),
    AtBoundary, Grp(<<RepUnbounded(0, <<In(<<Rg(45, 45), Rg(97, 122), Rg(65, 90), Rg(48, 57),
    Rg(64, 64), Rg(58, 58), Rg(37, 37), Rg(95, 95), Rg(43, 43), Rg(46, 46), Rg(126, 126),
    Rg(35, 35), Rg(63, 63), Rg(38, 38), Rg(47, 47), Rg(61, 61), Rg(42, 42)>>)>>)>>)>>)>>

\* helpers.py:60-62  patterns["web-related"]["webfile"]
re_webfile ==
    <<Grp(<<RepUnbounded(1, <<Grp(<<NotIn(<<Ct("space"), Rg(124, 124), Ct("digit"),
    Ct("notword"), Rg(42, 42)>>)>>)>>), RepUnbounded(1, <<In(<<Rg(97, 122), Rg(45, 45), Rg(65,
    90), Rg(48, 57), Rg(95, 95), Rg(32, 32)>>)>>), Grp(<<Alt(<<<<Lit(46)>>, <<Lit(91), Lit(46),
    Lit(93)>>>>)>>), Grp(<<Alt(<<<<Lit(104), Lit(116), Lit(97)>>, <<Lit(104), Lit(116),
    Lit(109), Lit(108)>>, <<Lit(104), Lit(116), Lit(109)>>, <<Lit(104), Lit(116), Lit(109),
    Lit(108), Lit(115)>>, <<Lit(106), Lit(97), Lit(118), Lit(97)>>, <<Lit(106), Lit(115),
    Lit(112)>>, <<Lit(106), Lit(115)>>, <<Lit(112), Lit(104), Lit(112)>>, <<Lit(97), Lit(115),
    Lit(112), AtEnd>>, <<Lit(97), Lit(115), Lit(112), Lit(120)>>>>)>>)>>)>>

\* helpers.py:81-81  patterns["file-related"]["windir"]
re_windir ==
    <<AtBoundary, Rep(1, 1, <<In(<<Rg(97, 122), Rg(65, 90)>>)>>), Lit(58), Rep(0, 1,
    <<Lit(92)>>), Lit(92), RepUnbounded(1, <<In(<<Ct("word")>>)>>), Rep(0, 1, <<Lit(92)>>),
    RepUnbounded(1, <<AnyChar>>), AtEnd>>


\* \b at position i of s (i characters lie before it)
IsBoundary(s, i) ==
    LET before == i >= 1 /\ IsWord(s[i])
        after == i < Len(s) /\ IsWord(s[i + 1])
    IN before # after

\* $ without re.MULTILINE: the end of s, or just before a newline that ends s
IsEnd(s, i) == i = Len(s) \/ (i = Len(s) - 1 /\ s[Len(s)] = 10)

\* a rep node after one more round of its body
OneLess(n) == [n EXCEPT !.lo = IF n.lo > 0 THEN n.lo - 1 ELSE 0,
                        !.hi = IF n.inf THEN 0 ELSE n.hi - 1]

RECURSIVE MatchFrom(_, _, _)
RECURSIVE TryAlts(_, _, _, _, _)
\* The position where the first match (in re's backtracking order) of the node sequence k
\* ends when it starts at position i of s, or -1 when there is none.
MatchFrom(k, s, i) ==
    IF Len(k) = 0 THEN i
    ELSE LET n == Head(k)
             rest == Tail(k)
         IN CASE n.t = "lit" ->
                   IF i < Len(s) /\ s[i + 1] = n.c THEN MatchFrom(rest, s, i + 1) ELSE -1
              [] n.t = "notlit" ->
                   IF i < Len(s) /\ s[i + 1] # n.c THEN MatchFrom(rest, s, i + 1) ELSE -1
              [] n.t = "any" ->
                   IF i < Len(s) /\ s[i + 1] # 10 THEN MatchFrom(rest, s, i + 1) ELSE -1
              [] n.t = "in" ->
                   IF i < Len(s) /\ InClass(s[i + 1], n) THEN MatchFrom(rest, s, i + 1) ELSE -1
              [] n.t = "grp" -> MatchFrom(n.body \o rest, s, i)
              [] n.t = "alt" -> TryAlts(n.alts, 1, rest, s, i)
              [] n.t = "rep" ->
                   LET more == IF n.inf \/ n.hi > 0
                               THEN MatchFrom(n.body \o <<OneLess(n)>> \o rest, s, i)
                               ELSE -1
                   IN IF more # -1 THEN more
                      ELSE IF n.lo <= 0 THEN MatchFrom(rest, s, i) ELSE -1
              [] n.t = "nla" ->
                   IF MatchFrom(n.body, s, i) = -1 THEN MatchFrom(rest, s, i) ELSE -1
              [] n.t = "nlb" ->
                   IF i >= n.w /\ MatchFrom(n.body, s, i - n.w) # -1 THEN -1
                   ELSE MatchFrom(rest, s, i)
              [] n.t = "bol" -> IF i = 0 THEN MatchFrom(rest, s, i) ELSE -1
              [] n.t = "eol" -> IF IsEnd(s, i) THEN MatchFrom(rest, s, i) ELSE -1
              [] n.t = "wb" -> IF IsBoundary(s, i) THEN MatchFrom(rest, s, i) ELSE -1

TryAlts(alts, j, rest, s, i) ==
    IF j > Len(alts) THEN -1
    ELSE LET m == MatchFrom(alts[j] \o rest, s, i)
         IN IF m # -1 THEN m ELSE TryAlts(alts, j + 1, rest, s, i)

RECURSIVE FindIter(_, _, _)
\* re.finditer(regex, s) from position pos on: the matched substrings, left to right,
\* no two overlapping
FindIter(regex, s, pos) ==
    IF pos > Len(s) THEN <<>>
    ELSE LET e == MatchFrom(regex, s, pos)
         IN IF e = -1 THEN FindIter(regex, s, pos + 1)
            ELSE <<SubSeq(s, pos + 1, e)>>
                 \o FindIter(regex, s, IF e = pos THEN pos + 1 ELSE e)

\* str.lower() of one character
LowerChar(c) ==
    IF (65 <= c /\ c <= 90) \/ (1040 <= c /\ c <= 1071) THEN c + 32
    ELSE IF 1024 <= c /\ c <= 1039 THEN c + 80
    ELSE c

\* str.lower()
Lower(s) == [n \in 1..Len(s) |-> LowerChar(s[n])]

\* reiter yielding, for each match, a group that took no part in it: the empty string
reiter_empty_group(regex, txt) ==
    [n \in 1..Len(FindIter(regex, Lower(txt), 0)) |-> <<>>]

\* reiter matching on the text as it is
reiter_no_lower(regex, txt) == FindIter(regex, txt, 0)

\* Helpers.reiter: the matches of regex in the lower-cased text, in document order
reiter(regex, txt) == FindIter(regex, Lower(txt), 0)

(***************************************************************************)
(* The inputs: texts, and the contents of the TLD file                     *)
(***************************************************************************)
\* the most fragments a text is made of
MaxFrags == 3
\* the greatest age, in days, of the TLD file
MaxAge == 5
\* the most candidates handed to process_domains on its own
MaxDomains == 2
\* the most lines of a TLD file handed to process_domains on its own
MaxLines == 2

\* the pieces of the sample document: "ab.com", " ", "C@d.org", CYRILLIC CAPITAL LETTER DE,
\* "ab.zip", ARABIC LETTER BEH, DEVANAGARI LETTER KA, CJK IDEOGRAPH 4E2D,
\* "B@b.com a@a.com b@b.com"
Fragments ==
    << <<97, 98, 46, 99, 111, 109>>, <<32>>, <<67, 64, 100, 46, 111, 114, 103>>, <<1044>>,
       <<97, 98, 46, 122, 105, 112>>, <<1576>>, <<2325>>, <<20013>>,
       <<66, 64, 98, 46, 99, 111, 109, 32, 97, 64, 97, 46, 99, 111, 109,
         32, 98, 64, 98, 46, 99, 111, 109>> >>

RECURSIVE Join(_)
\* "".join(parts)
Join(parts) == IF Len(parts) = 0 THEN <<>> ELSE Head(parts) \o Join(Tail(parts))

\* the texts get_patterns is called with: the empty text and every run of at most MaxFrags
\* consecutive pieces of the sample document
Texts ==
    UNION {{Join(SubSeq(Fragments, m, n)) :
               n \in {k \in (m - 1)..(m + MaxFrags - 1) : k <= Len(Fragments)}} :
           m \in 1..Len(Fragments)}

\* the TLD file before a refresh: "# v", "COM", "ZIP"
OldLines == << <<35, 32, 118>>, <<67, 79, 77>>, <<90, 73, 80>> >>
\* response.content of a successful download: "# w", "COM", "ORG", "ZIP"
NewLines == << <<35, 32, 119>>, <<67, 79, 77>>, <<79, 82, 71>>, <<90, 73, 80>> >>

NoFile == [exists |-> FALSE, lines |-> <<>>, age |-> 0]
FileOf(lines, age) == [exists |-> TRUE, lines |-> lines, age |-> age]

\* candidates of process_domains run on its own: "ab.com", "ab.zip", "x.gov", "d.org",
\* "a[.]com", "b.COM", "ab"
Candidates ==
    { <<97, 98, 46, 99, 111, 109>>, <<97, 98, 46, 122, 105, 112>>, <<120, 46, 103, 111, 118>>,
      <<100, 46, 111, 114, 103>>, <<97, 91, 46, 93, 99, 111, 109>>, <<98, 46, 67, 79, 77>>,
      <<97, 98>> }
\* lines of a TLD file: "# v", "COM", " zip ", "gov", "org", "", "#com"
FileLines ==
    { <<35, 32, 118>>, <<67, 79, 77>>, <<32, 122, 105, 112, 32>>, <<103, 111, 118>>,
      <<111, 114, 103>>, <<>>, <<35, 99, 111, 109>> }

(***************************************************************************)
(* Helpers (src/utils/helpers.py)                                          *)
(***************************************************************************)
\* the keys of Helpers.detect_language's dict, in its order, each with its pattern
LanguageRegex ==
    << <<"KANJI", re_kanji>>, <<"ARABIC", re_arabic>>, <<"CHINESE", re_chinese>>,
       <<"FARSI", re_farsi>>, <<"CYRILLIC", re_cyrillic>>, <<"HEBREW", re_hebrew>>,
       <<"HAN", re_han_unification>>, <<"DEVANAGARI", re_devanagari>> >>

\* the keys of Helpers.patts' dict, in its order, each with its pattern
PattRegex ==
    << <<"ARCHIVE", re_archive>>, <<"BINARY", re_binary>>, <<"BTC", re_btc>>,
       <<"DOMAIN", re_domain>>, <<"EMAIL", re_email>>, <<"ENVIRONMENT VARIABLE", re_env_var>>,
       <<"MISC FILE", re_misc_file>>, <<"IMAGE", re_image>>, <<"IPV4", re_ipv4>>,
       <<"GEOLOCATION", re_geolocation>>, <<"MAC", re_mac>>, <<"MD5", re_md5>>,
       <<"OFFICE/PDF", re_office>>, <<"PHONE", re_phone>>, <<"SCRIPT", re_script>>,
       <<"SHA1", re_sha1>>, <<"SHA256", re_sha256>>, <<"URL", re_url>>,
       <<"WEB FILE", re_webfile>>, <<"WIN DIR", re_windir>> >>

\* Helpers.detect_language(txt): label -> the matches of the label's pattern
HelperDetect(txt) ==
    [n \in 1..Len(LanguageRegex) |-> <<LanguageRegex[n][1], reiter(LanguageRegex[n][2], txt)>>]

\* Helpers.patts(txt): the items of the dict, key and the matches of the key's pattern
HelperPatts(txt) ==
    [n \in 1..Len(PattRegex) |-> <<PattRegex[n][1], reiter(PattRegex[n][2], txt)>>]

\* the two dicts for each text, computed once
detected == [txt \in Texts |-> HelperDetect(txt)]
patts == [txt \in Texts |-> HelperPatts(txt)]

Range(f) == {f[x] : x \in DOMAIN f}

\* detected_language.get(language): the matches, << >> for a key the dict does not hold
Get(dict, key) ==
    IF \E n \in 1..Len(dict) : dict[n][1] = key
    THEN (CHOOSE item \in Range(dict) : item[1] = key)[2]
    ELSE <<>>
HasKey(dict, key) == \E n \in 1..Len(dict) : dict[n][1] = key

(***************************************************************************)
(* str and set helpers of Python                                           *)
(***************************************************************************)
RECURSIVE LStrip(_)
LStrip(s) == IF Len(s) > 0 /\ IsSpace(s[1]) THEN LStrip(Tail(s)) ELSE s
RECURSIVE RStrip(_)
RStrip(s) == IF Len(s) > 0 /\ IsSpace(s[Len(s)]) THEN RStrip(SubSeq(s, 1, Len(s) - 1)) ELSE s
\* str.strip()
Strip(s) == RStrip(LStrip(s))

RECURSIVE Split(_, _)
\* str.split(sep), sep one character: the parts between the occurrences of sep
Split(s, sep) ==
    IF \E n \in 1..Len(s) : s[n] = sep
    THEN LET n == CHOOSE n \in 1..Len(s) : s[n] = sep /\ \A m \in 1..(n - 1) : s[m] # sep
         IN <<SubSeq(s, 1, n - 1)>> \o Split(SubSeq(s, n + 1, Len(s)), sep)
    ELSE <<s>>

\* a < b in the order of str: by code point, a proper prefix first
StrLess(a, b) ==
    \E n \in 1..(Len(b)) :
        /\ \A m \in 1..(n - 1) : m <= Len(a) /\ a[m] = b[m]
        /\ (n > Len(a) \/ (n <= Len(a) /\ a[n] < b[n]))
        /\ n - 1 <= Len(a)

\* sorted(set(pvals)): the distinct elements of pvals in ascending order
Sorted(pvals) ==
    LET S == Range(pvals)
    IN IF S = {} THEN <<>>
       ELSE CHOOSE q \in [1..Cardinality(S) -> S] :
                \A i, j \in 1..Cardinality(S) : i < j => StrLess(q[i], q[j])

(***************************************************************************)
(* PDFWorker (src/pie.py, src/utils/worker.py)                             *)
(***************************************************************************)
\* tlds_file(age_limit_days=3)
AgeLimitDays == 3

\* exclude = ("gov", "foo", "py", "zip")
Exclude == { <<103, 111, 118>>, <<102, 111, 111>>, <<112, 121>>, <<122, 105, 112>> }

\* the labels PDFWorker.detect_language looks up
Languages == {"ARABIC", "CYRILLIC", "KANJI", "CHINESE", "FARSI", "HEBREW"}

\* the titles get_patterns is called with
Titles == {"", "report.pdf"}

\* write_file(report=title, ...) raises whenever report is not empty: it opens the path
\* <title>.txt/<opt> for reading and writes to it
WriteFileRaises == title # ""
WriteErrors == {"FileNotFoundError", "NotADirectoryError", "UnsupportedOperation"}

\* the property valid_tlds raises FileNotFoundError: pie.py opens the file, worker.py
\* returns the empty set when there is none
ValidTldsRaises == variant = "pie" /\ ~tld_file.exists

\* valid_tlds kept from the time tlds_file was called: the refresh of the file is not seen
valid_tlds_stale ==
    IF ~tld_before.exists THEN {}
    ELSE {tld \in {Lower(Strip(line)) : line \in Range(tld_before.lines)} :
              Len(tld) > 0 /\ tld[1] # 35}

\* the property valid_tlds: the stripped, lower-cased lines that are neither empty nor comments
valid_tlds ==
    IF ~tld_file.exists THEN {}
    ELSE {tld \in {Lower(Strip(line)) : line \in Range(tld_file.lines)} :
              Len(tld) > 0 /\ tld[1] # 35}

\* process_domains without its exclusion list
process_domains_no_exclude(sorted_patterns) ==
    IF sorted_patterns # {} /\ ValidTldsRaises
    THEN [raised |-> "FileNotFoundError", patterns |-> {}]
    ELSE [raised |-> "",
          patterns |-> {domain \in sorted_patterns :
                           LET parts == Split(domain, 46)
                               tld == Lower(parts[Len(parts)])
                           IN tld \in valid_tlds}]

\* process_domains(sorted_patterns): the exception raised, if any, and the set returned
process_domains(sorted_patterns) ==
    IF sorted_patterns # {} /\ ValidTldsRaises
    THEN [raised |-> "FileNotFoundError", patterns |-> {}]
    ELSE [raised |-> "",
          patterns |-> {domain \in sorted_patterns :
                           LET parts == Split(domain, 46)
                               tld == Lower(parts[Len(parts)])
                           IN tld \in valid_tlds /\ tld \notin Exclude}]

\* "\n".join(patterns) over the set patterns: the elements in the order the set yields
\* them, which is the order of their hashes and changes from one process to the next
JoinOrders(patterns) ==
    {q \in [1..Cardinality(patterns) -> patterns] :
        \A i, j \in 1..Cardinality(patterns) : i # j => q[i] # q[j]}

\* no document was processed before this one
NoPrev == [text |-> <<>>, lang_found |-> <<>>, emitted |-> <<>>, counter |-> 0, tld_file |-> NoFile]

Init ==
    /\ variant \in {"pie", "worker"}
    /\ pc = "idle"
    /\ text = <<>>
    /\ output = FALSE
    /\ title = ""
    /\ counter = 0
    /\ key_idx = 1
    /\ lang_found = <<>>
    /\ emitted = <<>>
    /\ raw_domains = {}
    /\ no_iocs = FALSE
    /\ raised = ""
    /\ tld_file \in {NoFile, FileOf(OldLines, AgeLimitDays), FileOf(OldLines, MaxAge)}
    /\ tld_before = tld_file
    /\ requests = 0
    /\ response = "none"
    /\ answer = ""
    /\ interrupted = FALSE
    /\ domains_in = {}
    /\ domains_out = {}
    /\ printed = <<>>
    /\ checked = FALSE
    /\ docs = 1
    /\ prev = NoPrev
    /\ judged = {}
    /\ writer = "idle"

\* get_patterns is called with one of texts; the header of the report is written
GetPatternsOn(texts) ==
    /\ pc = "idle"
    /\ \E txt \in texts, out \in BOOLEAN :
         \E ttl \in IF out THEN Titles ELSE {"report.pdf"} :
           /\ text' = txt
           /\ output' = out
           /\ title' = ttl
           /\ IF out /\ ttl # ""
              THEN \E e \in WriteErrors : raised' = e /\ pc' = "raised"
              ELSE raised' = raised /\ pc' = "detect"
    /\ UNCHANGED <<variant, counter, key_idx, lang_found, emitted, raw_domains, no_iocs,
                   tld_file, tld_before, requests, response, answer, interrupted, domains_in, domains_out,
                   printed, checked, docs, prev, judged, writer>>

GetPatterns == GetPatternsOn(Texts)

\* PDFWorker.detect_language
DetectLanguage ==
    /\ pc = "detect"
    /\ LET detected_language == detected[text]
           found == {language \in Languages :
                        /\ HasKey(detected_language, language)
                        /\ Join(Get(detected_language, language)) # <<>>}
       IN /\ counter' = counter + Cardinality(found)
          /\ lang_found' = [language \in found |-> Join(Get(detected_language, language))]
          /\ IF output /\ found # {} /\ WriteFileRaises
             THEN \E e \in WriteErrors : raised' = e /\ pc' = "raised"
             ELSE raised' = raised /\ pc' = IF variant = "pie" THEN "tlds" ELSE "keys"
    /\ UNCHANGED <<variant, text, output, title, key_idx, emitted, raw_domains, no_iocs,
                   tld_file, tld_before, requests, response, answer, interrupted, domains_in, domains_out,
                   printed, checked, docs, prev, judged, writer>>

\* tlds_file refreshing a file that is exactly at the age limit
TldsFileAtLimit ==
    /\ pc = "tlds"
    /\ tld_before' = tld_file
    /\ checked' = TRUE
    /\ pc' = IF tld_file.exists /\ ~(tld_file.age >= AgeLimitDays) THEN "keys"
             ELSE IF variant = "pie" THEN "request" ELSE "ask"
    /\ UNCHANGED <<variant, text, output, title, counter, key_idx, lang_found, emitted,
                   raw_domains, no_iocs, raised, tld_file, requests, response, answer,
                   interrupted, domains_in, domains_out,
                   printed, docs, prev, judged, writer>>

\* tlds_file with check_tlds_file_age, up to the download or the prompt
TldsFile ==
    /\ pc = "tlds"
    /\ tld_before' = tld_file
    /\ checked' = TRUE
    /\ pc' = IF tld_file.exists /\ ~(tld_file.age > AgeLimitDays) THEN "keys"
             ELSE IF variant = "pie" THEN "request" ELSE "ask"
    /\ UNCHANGED <<variant, text, output, title, counter, key_idx, lang_found, emitted,
                   raw_domains, no_iocs, raised, tld_file, requests, response, answer,
                   interrupted, domains_in, domains_out,
                   printed, docs, prev, judged, writer>>

\* worker.py: Prompt.ask, and the test response.strip().lower() in ["yes", "y"]
Ask ==
    /\ pc = "ask"
    /\ \E a \in {"yes", "y", "no"} :
         /\ answer' = a
         /\ pc' = IF a \in {"yes", "y"} THEN "request" ELSE "keys"
    /\ UNCHANGED <<variant, text, output, title, counter, key_idx, lang_found, emitted,
                   raw_domains, no_iocs, raised, tld_file, tld_before, requests, response,
                   interrupted, domains_in, domains_out,
                   printed, checked, docs, prev, judged, writer>>

\* download_tlds: requests.get and raise_for_status
Request ==
    /\ pc = "request"
    /\ requests' = requests + 1
    /\ \E r \in {"ok", "error"} :
         /\ response' = r
         /\ pc' = IF r = "ok" THEN "open" ELSE "keys"
    /\ UNCHANGED <<variant, text, output, title, counter, key_idx, lang_found, emitted,
                   raw_domains, no_iocs, raised, tld_file, tld_before, answer,
                   interrupted, domains_in, domains_out,
                   printed, checked, docs, prev, judged, writer>>

\* download_tlds: Path(filepath).open("wb") creates or truncates the file
OpenFile ==
    /\ pc = "open"
    /\ tld_file' = FileOf(<<>>, 0)
    /\ pc' = "write"
    /\ UNCHANGED <<variant, text, output, title, counter, key_idx, lang_found, emitted,
                   raw_domains, no_iocs, raised, tld_before, requests, response, answer,
                   interrupted, domains_in, domains_out,
                   printed, checked, docs, prev, judged, writer>>

\* download_tlds: fileobj.write(response.content) reaches the file a piece at a time;
\* the file is closed when the last piece is in
WriteLine ==
    /\ pc = "write"
    /\ LET n == Len(tld_file.lines) + 1
       IN /\ tld_file' = FileOf(Append(tld_file.lines, NewLines[n]), 0)
          /\ pc' = IF n = Len(NewLines) THEN "keys" ELSE "write"
    /\ UNCHANGED <<variant, text, output, title, counter, key_idx, lang_found, emitted,
                   raw_domains, no_iocs, raised, tld_before, requests, response, answer,
                   interrupted, domains_in, domains_out,
                   printed, checked, docs, prev, judged, writer>>

\* one round of the loop of get_patterns over helper.patts(text).items()
NextKey ==
    /\ pc = "keys"
    /\ key_idx <= Len(patts[text])
    /\ LET key == patts[text][key_idx][1]
           pvals == patts[text][key_idx][2]
           sorted_patterns == Sorted(pvals)
           first == IF sorted_patterns # <<>> THEN counter + 1 ELSE counter
           filtered == process_domains(Range(sorted_patterns))
           final == IF key = "DOMAIN" THEN filtered.patterns ELSE Range(sorted_patterns)
           second == IF final # {} THEN first + 1
                     ELSE IF key = "DOMAIN" THEN first - 1 ELSE first
       IN /\ raw_domains' = IF key = "DOMAIN" THEN Range(sorted_patterns) ELSE raw_domains
          /\ IF key = "DOMAIN" /\ filtered.raised # ""
             THEN /\ counter' = first
                  /\ raised' = filtered.raised
                  /\ pc' = "raised"
                  /\ UNCHANGED <<key_idx, emitted, printed>>
             ELSE /\ counter' = second
                  /\ emitted' = emitted @@ (key :> final)
                  /\ \E pattern \in JoinOrders(final) : printed' = printed @@ (key :> pattern)
                  /\ IF final # {} /\ output /\ WriteFileRaises
                     THEN /\ \E e \in WriteErrors : raised' = e
                          /\ pc' = "raised"
                          /\ key_idx' = key_idx
                     ELSE /\ raised' = raised
                          /\ pc' = pc
                          /\ key_idx' = key_idx + 1
    /\ UNCHANGED <<variant, text, output, title, lang_found, no_iocs, tld_file, tld_before,
                   requests, response, answer, interrupted, domains_in, domains_out,
                   checked, docs, prev, judged, writer>>

\* the end of get_patterns: "= No IOCs found =" when the counter is not positive
Finish ==
    /\ pc = "keys"
    /\ key_idx > Len(patts[text])
    /\ no_iocs' = (counter <= 0)
    /\ IF counter <= 0 /\ output /\ WriteFileRaises
       THEN \E e \in WriteErrors : raised' = e /\ pc' = "raised"
       ELSE raised' = raised /\ pc' = "done"
    /\ UNCHANGED <<variant, text, output, title, counter, key_idx, lang_found, emitted,
                   raw_domains, tld_file, tld_before, requests, response, answer,
                   interrupted, domains_in, domains_out,
                   printed, checked, docs, prev, judged, writer>>

Next ==
    \/ GetPatterns
    \/ DetectLanguage
    \/ TldsFile
    \/ Request
    \/ OpenFile
    \/ WriteLine
    \/ NextKey
    \/ Finish

Spec == Init /\ [][Next]_vars

(***************************************************************************)
(* tlds_file on its own, with the interruptions of the process             *)
(***************************************************************************)
InitTlds ==
    /\ variant \in {"pie", "worker"}
    /\ pc = "tlds"
    /\ text = <<>>
    /\ output = FALSE
    /\ title = ""
    /\ counter = 0
    /\ key_idx = 1
    /\ lang_found = <<>>
    /\ emitted = <<>>
    /\ raw_domains = {}
    /\ no_iocs = FALSE
    /\ raised = ""
    /\ tld_file \in {NoFile} \cup {FileOf(OldLines, age) : age \in 0..MaxAge}
    /\ tld_before = tld_file
    /\ requests = 0
    /\ response = "none"
    /\ answer = ""
    /\ interrupted = FALSE
    /\ domains_in = {}
    /\ domains_out = {}
    /\ printed = <<>>
    /\ checked = FALSE
    /\ docs = 1
    /\ prev = NoPrev
    /\ judged = {}
    /\ writer = "idle"

\* KeyboardInterrupt while tlds_file runs.  worker.py catches it around the prompt and the
\* download and returns; elsewhere it leaves the run.  A file open for writing is closed
\* with what has been written so far.
Interrupt ==
    /\ pc \in {"tlds", "ask", "request", "open", "write"}
    /\ interrupted' = TRUE
    /\ IF variant = "worker" /\ pc # "tlds"
       THEN raised' = raised /\ pc' = "keys"
       ELSE raised' = "KeyboardInterrupt" /\ pc' = "raised"
    /\ UNCHANGED <<variant, text, output, title, counter, key_idx, lang_found, emitted,
                   raw_domains, no_iocs, tld_file, tld_before, requests, response, answer,
                   domains_in, domains_out,
                   printed, checked, docs, prev, judged, writer>>

NextTlds ==
    \/ TldsFile
    \/ Ask
    \/ Request
    \/ OpenFile
    \/ WriteLine
    \/ Interrupt

SpecTlds == InitTlds /\ [][NextTlds]_vars

(***************************************************************************)
(* process_domains on its own                                              *)
(***************************************************************************)
\* the sequences of at most n elements of S
SeqsUpTo(S, n) == UNION {[1..m -> S] : m \in 0..n}

InitDomains ==
    /\ variant \in {"pie", "worker"}
    /\ pc = "domains"
    /\ text = <<>>
    /\ output = FALSE
    /\ title = ""
    /\ counter = 0
    /\ key_idx = 1
    /\ lang_found = <<>>
    /\ emitted = <<>>
    /\ raw_domains = {}
    /\ no_iocs = FALSE
    /\ raised = ""
    /\ tld_file \in {NoFile} \cup {FileOf(lines, 0) : lines \in SeqsUpTo(FileLines, MaxLines)}
    /\ tld_before = tld_file
    /\ requests = 0
    /\ response = "none"
    /\ answer = ""
    /\ interrupted = FALSE
    /\ domains_in \in {C \in SUBSET Candidates : Cardinality(C) <= MaxDomains}
    /\ domains_out = {}
    /\ printed = <<>>
    /\ checked = FALSE
    /\ docs = 1
    /\ prev = NoPrev
    /\ judged = {}
    /\ writer = "idle"

\* self.process_domains(domains_in)
ProcessDomains ==
    /\ pc = "domains"
    /\ LET result == process_domains(domains_in)
       IN /\ domains_out' = result.patterns
          /\ raised' = result.raised
          /\ pc' = IF result.raised = "" THEN "domains_done" ELSE "raised"
    /\ UNCHANGED <<variant, text, output, title, counter, key_idx, lang_found, emitted,
                   raw_domains, no_iocs, tld_file, tld_before, requests, response, answer,
                   interrupted, domains_in,
                   printed, checked, docs, prev, judged, writer>>

NextDomains == ProcessDomains

SpecDomains == InitDomains /\ [][NextDomains]_vars

(***************************************************************************)
(* The claims                                                              *)
(***************************************************************************)
\* a run of get_patterns that reached its end
Finished == pc = "done"

\* the labels, script labels and keys, whose final result is not empty
FoundLabels == DOMAIN lang_found \cup {key \in DOMAIN emitted : emitted[key] # {}}

\* C1: when get_patterns finishes on a fresh worker, the counter is positive if and only
\* if some script label or category has a non-empty final result, and "No IOCs found" is
\* printed if and only if every result is empty.
C1_CounterIffFound ==
    Finished => /\ (counter > 0) <=> (FoundLabels # {})
                /\ no_iocs <=> (FoundLabels = {})

\* C2: after get_patterns on a fresh worker the counter equals the number of labels whose
\* final result is not empty.
C2_CounterIsTally == Finished => counter = Cardinality(FoundLabels)

\* C3: for the empty text every result is empty, the counter is exactly 0 at the end and
\* "No IOCs found" is printed.
C3_EmptyText ==
    (Finished /\ text = <<>>) => /\ FoundLabels = {}
                                 /\ counter = 0
                                 /\ no_iocs

\* a text of one character at least, all of them in the Arabic block U+0600..U+06FF
ArabicOnly(txt) == Len(txt) > 0 /\ \A n \in 1..Len(txt) : 1536 <= txt[n] /\ txt[n] <= 1791

\* C4: for a text of Arabic characters only, the ARABIC entry is not empty, every other
\* script label and every category is empty, the counter is exactly 1 at the end and
\* "No IOCs found" is not printed.
C4_ArabicOnly ==
    (Finished /\ ArabicOnly(text)) => /\ FoundLabels = {"ARABIC"}
                                      /\ counter = 1
                                      /\ ~no_iocs

\* the position of the key DOMAIN in helper.patts(text).items()
DomainIdx == CHOOSE n \in 1..Len(PattRegex) : PattRegex[n][1] = "DOMAIN"

\* the download failed and there is no TLD file
NoTldsAtAll == response = "error" /\ ~tld_file.exists

\* C5: when the TLD fetch fails and no local TLD file exists, for a text whose raw DOMAIN
\* match set is not empty, the round of DOMAIN raises nothing, hands on an empty DOMAIN
\* result and leaves the counter where it was.
C5_NoTldsNoDomains ==
    [][(pc = "keys" /\ key_idx = DomainIdx /\ NoTldsAtAll /\ raw_domains' # {})
          => /\ raised' = ""
             /\ emitted'["DOMAIN"] = {}
             /\ counter' = counter]_vars

\* C6: whatever the state of the TLD file and the outcome of the download, a run that
\* does not write the report ends with every key after DOMAIN extracted and emitted.
C6_LaterKeysEmitted ==
    (pc \in {"done", "raised"} /\ ~output)
        => \A n \in (DomainIdx + 1)..Len(PattRegex) : PattRegex[n][1] \in DOMAIN emitted

\* the part of a candidate after its last ".", lower-cased; the whole of it when it has none
LastDot(d) == IF \E n \in 1..Len(d) : d[n] = 46
              THEN CHOOSE n \in 1..Len(d) : d[n] = 46 /\ \A m \in (n + 1)..Len(d) : d[m] # 46
              ELSE 0
Suffix(d) == Lower(SubSeq(d, LastDot(d) + 1, Len(d)))

\* sfx is what a line of the TLD file that is neither blank nor a comment holds
IsTldLine(line, sfx) ==
    LET s == Strip(line) IN Len(s) > 0 /\ s[1] # 35 /\ Lower(s) = sfx

\* a candidate whose suffix is a TLD of the file and is not excluded
KeptBySuffix(d) ==
    /\ \E n \in 1..Len(tld_file.lines) : IsTldLine(tld_file.lines[n], Suffix(d))
    /\ Suffix(d) \notin Exclude

\* C7: process_domains(C) is exactly the set of the d in C whose suffix after the last "."
\* is a non-comment line of the TLD file and is not in the exclusion set: a subset of C,
\* with no excluded suffix kept and no valid candidate dropped.
C7_ProcessDomainsExact ==
    pc = "domains_done" => /\ domains_out \subseteq domains_in
                           /\ domains_out = {d \in domains_in : KeptBySuffix(d)}

\* "ab.com" is kept and "ab.zip" dropped although the file lists zip
C7_Witness ==
    /\ pc = "domains_done"
    /\ <<97, 98, 46, 99, 111, 109>> \in domains_out
    /\ <<97, 98, 46, 122, 105, 112>> \in domains_in \ domains_out
    /\ <<122, 105, 112>> \in valid_tlds

\* the file is missing or older than the age limit
NeedsRefresh(file) == ~file.exists \/ file.age > AgeLimitDays

\* tlds_file returned and no interruption was delivered
Returned == pc = "keys" /\ ~interrupted

\* C8 as stated: a call of tlds_file makes exactly one request when the file is missing or
\* older than the limit and none otherwise.
C8_ExactlyOneRequest ==
    Returned => requests = IF NeedsRefresh(tld_before) THEN 1 ELSE 0

\* C8 as amended: a call of tlds_file never makes more than one request; pie.py makes
\* exactly one when the file is missing or older than the limit, worker.py makes it only
\* when the user also answers yes or y; none is made for a file within the limit.
C8_OneRequestWhenAgreed ==
    /\ requests <= 1
    /\ Returned => requests = IF /\ NeedsRefresh(tld_before)
                                 /\ (variant = "pie" \/ answer \in {"yes", "y"})
                              THEN 1 ELSE 0

\* a stale file, one request, which failed, and the call returned
C8_Witness ==
    /\ Returned
    /\ tld_before.exists /\ tld_before.age > AgeLimitDays
    /\ requests = 1
    /\ response = "error"

\* C9: when a refresh attempt fails, the TLD file is left as it was before the attempt
\* and the processing of the document goes on: no exception ends it.
C9_FailedRefreshHarmless ==
    response = "error" => /\ tld_file = tld_before
                          /\ raised = ""

\* C10: when the process is interrupted during a refresh, the TLD file is absent, holds
\* the complete previous content or holds the complete new content.
C10_NeverPartial ==
    interrupted => \/ ~tld_file.exists
                   \/ (tld_before.exists /\ tld_file.lines = tld_before.lines)
                   \/ tld_file.lines = NewLines

\* C11: for every key, DOMAIN after its filtering included, the patterns are emitted in
\* ascending lexicographic order.
C11_EmittedInOrder ==
    \A key \in DOMAIN printed :
        \A i, j \in 1..Len(printed[key]) : i < j => StrLess(printed[key][i], printed[key][j])

\* a occurs in s as a run of consecutive characters
IsSubstring(a, s) == \E i \in 0..(Len(s) - Len(a)) : SubSeq(s, i + 1, i + Len(a)) = a

\* no element occurs twice in the sequence q
NoDuplicates(q) == \A i, j \in 1..Len(q) : i # j => q[i] # q[j]

\* C12 as stated: every entry of a category other than DOMAIN occurs once in the category's
\* result and is a substring of the original input text.
C12_EntriesFromText ==
    \A key \in DOMAIN printed \ {"DOMAIN"} :
        /\ NoDuplicates(printed[key])
        /\ \A n \in 1..Len(printed[key]) : IsSubstring(printed[key][n], text)

\* C12 as amended: every entry of a category other than DOMAIN occurs once in the
\* category's result and is a substring of the lower-cased input text.
C12_EntriesFromLoweredText ==
    \A key \in DOMAIN printed \ {"DOMAIN"} :
        /\ NoDuplicates(printed[key])
        /\ \A n \in 1..Len(printed[key]) : IsSubstring(printed[key][n], Lower(text))

\* a text with a capital letter in an address and one address twice ended with three
\* EMAIL entries
C12_Witness ==
    /\ pc = "done"
    /\ "EMAIL" \in DOMAIN printed
    /\ text # Lower(text)
    /\ Len(patts[text][5][2]) > Len(printed["EMAIL"])
    /\ Len(printed["EMAIL"]) >= 2

(***************************************************************************)
(* One worker, several documents in succession                             *)
(***************************************************************************)
MaxDocs == 2

\* the texts of the documents: "", "ab.com", "C@d.org", CYRILLIC CAPITAL LETTER DE
DocTexts == {<<>>, Fragments[1], Fragments[3], Fragments[4]}

GetPatternsOfDocument == GetPatternsOn(DocTexts)

\* processor is called again on the same PDFWorker: the locals of get_patterns are new,
\* self.counter and the TLD file are what the document before left
NextDocument ==
    /\ pc = "done"
    /\ docs < MaxDocs
    /\ docs' = docs + 1
    /\ prev' = [text |-> text, lang_found |-> lang_found, emitted |-> emitted,
                counter |-> counter, tld_file |-> tld_file]
    /\ pc' = "idle"
    /\ key_idx' = 1
    /\ lang_found' = <<>>
    /\ emitted' = <<>>
    /\ printed' = <<>>
    /\ raw_domains' = {}
    /\ no_iocs' = FALSE
    /\ checked' = FALSE
    /\ tld_before' = tld_file
    /\ requests' = 0
    /\ response' = "none"
    /\ answer' = ""
    /\ UNCHANGED <<variant, text, output, title, counter, raised, tld_file, interrupted,
                   domains_in, domains_out, judged, writer>>

NextDocs ==
    \/ GetPatternsOfDocument
    \/ DetectLanguage
    \/ TldsFile
    \/ Request
    \/ OpenFile
    \/ WriteLine
    \/ NextKey
    \/ Finish
    \/ NextDocument

SpecDocs == Init /\ [][NextDocs]_vars

\* the document at hand has the text of the one before it, and the TLD file is at its
\* end what it was at the end of the one before
SameAgain ==
    /\ pc = "done"
    /\ docs > 1
    /\ prev.text = text
    /\ prev.tld_file.exists = tld_file.exists
    /\ prev.tld_file.lines = tld_file.lines

\* C13: get_patterns run twice on the same text with an unchanged TLD file yields the
\* same entries for every label both times.
C13_SameResultTwice ==
    SameAgain => /\ emitted = prev.emitted
                 /\ lang_found = prev.lang_found

\* "C@d.org" twice, with a TLD file that lists ORG both times: DOMAIN holds "d.org" twice
C13_Witness ==
    /\ SameAgain
    /\ text = Fragments[3]
    /\ emitted["DOMAIN"] = {<<100, 46, 111, 114, 103>>}
    /\ prev.emitted["DOMAIN"] = {<<100, 46, 111, 114, 103>>}

\* C14: when one worker processes several documents, the counter is reset for each
\* document and the freshness of the TLD file is evaluated again, so that "No IOCs found"
\* depends on the results of the document at hand only.
C14_CounterResetPerDocument ==
    /\ pc = "detect" => counter = 0
    /\ pc = "done" => /\ checked
                      /\ no_iocs <=> (counter - prev.counter <= 0)

\* the round of the key DOMAIN in the loop of get_patterns, when it does not raise
DomainRound == pc = "keys" /\ key_idx = DomainIdx /\ key_idx' = DomainIdx + 1

\* the raw DOMAIN matches are not empty and process_domains left none of them
OnlyInvalidDomains == raw_domains' # {} /\ emitted'["DOMAIN"] = {}

\* C15: when the raw DOMAIN set is not empty and the filtered set is empty, the round of
\* DOMAIN leaves the counter where it was, and the counter is decremented in no other case.
C15_DecrementOnlyWhenEmptied ==
    [][DomainRound => /\ OnlyInvalidDomains => counter' = counter
                      /\ ~OnlyInvalidDomains => counter' >= counter]_vars

\* the script labels for which Helpers.detect_language yields a fragment at least
LabelsWithFragments ==
    {detected[text][n][1] : n \in {m \in 1..Len(detected[text]) : detected[text][m][2] # <<>>}}

\* C16: every script label for which Helpers.detect_language yields a fragment, HAN and
\* DEVANAGARI included, adds 1 to the counter and is recorded as the concatenation of its
\* fragments in document order.
C16_EveryScriptLabelCounted ==
    [][(pc = "detect" /\ pc' # "raised")
          => /\ counter' = counter + Cardinality(LabelsWithFragments)
             /\ DOMAIN lang_found' = LabelsWithFragments
             /\ \A label \in LabelsWithFragments :
                    lang_found'[label] = Join(Get(detected[text], label))]_vars

\* C17: in every run of get_patterns the freshness check of the TLD file, with its refresh
\* when the file is absent or older than the age limit, has happened when process_domains
\* validates the first DOMAIN candidate.
C17_FreshnessBeforeDomains ==
    [][(pc = "keys" /\ key_idx = DomainIdx /\ raw_domains' # {})
          => /\ checked
             /\ NeedsRefresh(tld_before) => requests = 1]_vars

(***************************************************************************)
(* process_domains candidate by candidate, while another process of the   *)
(* program refreshes the TLD file in the same directory                    *)
(***************************************************************************)
InitRace ==
    /\ variant \in {"pie", "worker"}
    /\ pc = "judging"
    /\ text = <<>>
    /\ output = FALSE
    /\ title = ""
    /\ counter = 0
    /\ key_idx = 1
    /\ lang_found = <<>>
    /\ emitted = <<>>
    /\ raw_domains = {}
    /\ no_iocs = FALSE
    /\ raised = ""
    /\ tld_file = FileOf(OldLines, MaxAge)
    /\ tld_before = tld_file
    /\ requests = 0
    /\ response = "none"
    /\ answer = ""
    /\ interrupted = FALSE
    /\ domains_in \in {C \in SUBSET Candidates : Cardinality(C) <= MaxDomains}
    /\ domains_out = {}
    /\ printed = <<>>
    /\ checked = FALSE
    /\ docs = 1
    /\ prev = NoPrev
    /\ judged = {}
    /\ writer = "idle"

\* one turn of the loop `for domain in sorted_patterns` of process_domains: self.valid_tlds
\* is a property, so the test `tld in self.valid_tlds` reads the file anew
JudgeCandidate ==
    /\ pc = "judging"
    /\ IF judged = domains_in
       THEN /\ pc' = "judged"
            /\ UNCHANGED <<judged, domains_out, raised>>
       ELSE \E domain \in domains_in \ judged :
              LET result == process_domains({domain})
              IN /\ judged' = judged \cup {domain}
                 /\ domains_out' = domains_out \cup result.patterns
                 /\ raised' = result.raised
                 /\ pc' = IF result.raised = "" THEN "judging" ELSE "raised"
    /\ UNCHANGED <<variant, text, output, title, counter, key_idx, lang_found, emitted,
                   raw_domains, no_iocs, tld_file, tld_before, requests, response, answer,
                   interrupted, domains_in, printed, checked, docs, prev, writer>>

\* download_tlds in the other process: Path(filepath).open("wb")
OtherOpens ==
    /\ writer = "idle"
    /\ tld_file' = FileOf(<<>>, 0)
    /\ writer' = "write"
    /\ UNCHANGED <<variant, pc, text, output, title, counter, key_idx, lang_found, emitted,
                   raw_domains, no_iocs, raised, tld_before, requests, response, answer,
                   interrupted, domains_in, domains_out, printed, checked, docs, prev, judged>>

\* download_tlds in the other process: fileobj.write(response.content), a piece at a time
OtherWrites ==
    /\ writer = "write"
    /\ LET n == Len(tld_file.lines) + 1
       IN /\ tld_file' = FileOf(Append(tld_file.lines, NewLines[n]), 0)
          /\ writer' = IF n = Len(NewLines) THEN "closed" ELSE "write"
    /\ UNCHANGED <<variant, pc, text, output, title, counter, key_idx, lang_found, emitted,
                   raw_domains, no_iocs, raised, tld_before, requests, response, answer,
                   interrupted, domains_in, domains_out, printed, checked, docs, prev, judged>>

NextRace ==
    \/ JudgeCandidate
    \/ OtherOpens
    \/ OtherWrites

SpecRace == InitRace /\ [][NextRace]_vars

\* a candidate whose suffix is a TLD among lines and is not excluded
KeptWith(d, lines) ==
    /\ \E n \in 1..Len(lines) : IsTldLine(lines[n], Suffix(d))
    /\ Suffix(d) \notin Exclude

\* C18: within one call of process_domains every candidate is judged against one TLD set,
\* the set of the file before the refresh or the set of the file after it: a refresh
\* that comes between two candidates shows neither a partial set nor two sets.
C18_OneTldSetPerCall ==
    pc = "judged" =>
        \E lines \in {OldLines, NewLines} :
            domains_out = {d \in domains_in : KeptWith(d, lines)}

\* the string is empty or made of whitespace only
Blank(s) == \A n \in 1..Len(s) : IsSpace(s[n])

IsDefanged(d) ==
    /\ 1 < LastDot(d) /\ LastDot(d) < Len(d)
    /\ d[LastDot(d) - 1] = 91
    /\ d[LastDot(d) + 1] = 93

\* the TLD of a defanged candidate: what follows its "[.]", lower-cased
DefangedTld(d) == Lower(SubSeq(d, LastDot(d) + 2, Len(d)))

\* C20: a DOMAIN candidate whose last separator is "[.]" is kept by process_domains
\* whenever its TLD is in the TLD file and not in the exclusion set.
C20_DefangedKept ==
    pc = "domains_done" =>
        \A d \in domains_in :
            (/\ IsDefanged(d)
             /\ \E n \in 1..Len(tld_file.lines) : IsTldLine(tld_file.lines[n], DefangedTld(d))
             /\ DefangedTld(d) \notin Exclude) => d \in domains_out

\* the run stopped in valid_tlds: the DOMAIN round raised before anything was emitted for it,
\* which stops a run whatever its output flag is
StoppedInValidTlds ==
    /\ pc = "raised"
    /\ key_idx = DomainIdx
    /\ "DOMAIN" \notin DOMAIN emitted

\* C21: with output=True no write_file call of get_patterns (header, language blob,
\* per-category block, "No IOCs found") raises, so a run with the output flag set stops
\* early only where the same run without the flag stops too (in valid_tlds).
C21_OutputWritesSucceed ==
    (output /\ pc = "raised") => StoppedInValidTlds
====
